---- MODULE Spec2Model ----
(***************************************************************************)
(* Verification model of the ReSpeaker sound-detection pipeline:           *)
(*   AudioProcessor      (src/audio_processor.py)      signal conditioner  *)
(*   AudioClassifier     (src/audio_classifier.py)     rule-based classes, *)
(*                                                     rolling env buffer  *)
(*   SmartAudioSystem    (src/smart_audio_pipeline.py) processor+classifier*)
(*                                                                         *)
(* Fixed point.  Amplitudes and RMS values are integers in units of 1e-4   *)
(* (RmsOne = 1.0).  Gains are integers in units of 1e-4 (GainOne = 1.0).   *)
(* Zero-crossing rates are in units of 1e-3, centroids in Hz, confidences  *)
(* in percent.  A frame is a constant-modulus waveform: every sample has   *)
(* absolute value equal to the frame's RMS, so clipping gain*x to [-1, 1]  *)
(* yields an RMS of min(gain * rms, 1).                                    *)
(*                                                                         *)
(* Time.  stream.read blocks for one frame period, so the clock `now`      *)
(* counts frame periods: it advances by one on every frame delivered.      *)
(***************************************************************************)
EXTENDS Integers, Sequences, FiniteSets, TLC

(* ------------------------------ bounds -------------------------------- *)

\* Sample rate, scaled down so that the rolling buffer stays small
\* (ENV_SAMPLES and ENV_WINDOW_SAMPLES are derived from it as in the source).
DEFAULT_RATE == 2

\* Number of frames the audio source delivers in one run.
MaxFrames == 4

\* Number of frames the conditioner filters between two resets when it is
\* exercised on its own.
MaxAgcFrames == 8

\* Number of frames of a stationary input, long enough for the gain to settle.
MaxSteadyFrames == 100

\* Number of SmartAudioSystem instances the GUI creates in one run.
MaxInstances == 2

\* Number of processing threads the GUI starts in one run.
MaxThreads == 2

\* history_size of the SoundDetectionService, scaled down.
HistorySize == 2

\* Number of iterations the service loop completes in one run.
MaxIterations == 4

\* Number of /start and /stop requests the REST API serves in one run.
MaxRequests == 3

(* ------------------------ program constants --------------------------- *)

ENV_DURATION == 5

ENV_SAMPLES == DEFAULT_RATE * ENV_DURATION

ENV_WINDOW_DURATION == 2

ENV_WINDOW_SAMPLES == DEFAULT_RATE * ENV_WINDOW_DURATION

\* ENV_MIN_RMS = 0.005
ENV_MIN_RMS == 50

\* ENV_CONF_THRESHOLD = 0.55
ENV_CONF_THRESHOLD == 55

\* the literal 0.02 of SmartAudioSystem.process_and_predict
PIPE_MIN_RMS == 200

\* thresholds local to AudioClassifier.classify_sound
SILENCE_RMS_TH == 15

SPEECH_RMS_MIN == 15

SPEECH_RMS_MAX == 200

MUSIC_RMS_MIN == 100

SPEECH_ZCR_MIN == 10

SPEECH_ZCR_MAX == 200

MUSIC_ZCR_MIN == 20

MUSIC_CENTROID_MIN == 1000

\* amplitude 1.0, the clip limit of apply_agc
RmsOne == 10000

\* gain 1.0, the initial current_gain and the lower clamp of the speech regime
GainOne == 10000

\* 10 ** (agc_max_gain / 20) with agc_max_gain = 15.0 dB, i.e. 5.6234...
max_linear_gain == 56234

\* agc_target_rms = 0.12
agc_target_rms == 1200

\* gate_threshold = 0.012
gate_threshold == 120

\* gate_ratio = 0.10
gate_ratio == 1000

\* smoothing factors in tenths: 0.2 in the low-energy regime, agc_smooth = 0.1
gate_smoothing == 2

agc_smooth == 1

SmoothOne == 10

\* Two of the eleven ENV_CLASSES.
EnvLabels == {"dog", "rain"}

None == "None"

(* ------------------------------ inputs -------------------------------- *)

\* Frame lengths the classifier may be constructed with (chunk=...): shorter
\* than the window (even and odd), the window itself, and one more than the
\* capacity of the rolling buffer.
ChunkSizes == {2, 3, ENV_WINDOW_SAMPLES, ENV_SAMPLES + 1}

\* RMS of a frame: all-zero, below the silence threshold, below ENV_MIN_RMS,
\* below the AGC gate, at it, just above it, normal speech, loud.
RmsLevels == {0, 10, 30, 110, 120, 150, 500, 3000}

\* Frames, by their features (rms, zero-crossing rate, spectral centroid).
Feat(rms, zcr, centroid) == [rms |-> rms, zcr |-> zcr, centroid |-> centroid]

ZeroFrame == Feat(0, 0, 0)

SoftFrame == Feat(30, 100, 500)

FaintFrame == Feat(110, 100, 500)

SpeechFrame == Feat(500, 100, 500)

MusicFrame == Feat(3000, 100, 2000)

FrameKinds == {ZeroFrame, SoftFrame, FaintFrame, SpeechFrame, MusicFrame}

\* The frames whose RMS is below the AGC gate threshold.
QuietKinds == {f \in FrameKinds : f.rms < gate_threshold}

\* Chunk lengths handed to AudioProcessor.process: empty, even, odd.
AgcLengths == {0, 2, 3}

\* What the engine may answer: a label of EnvLabels and its confidence.
Pred(label, conf) == [label |-> label, conf |-> conf]

ConfLevels == {30, 60, 100}

AllPreds == {Pred(l, c) : l \in EnvLabels, c \in ConfLevels}

SomePreds == {Pred("dog", 100), Pred("rain", 30)}

Min(a, b) == IF a < b THEN a ELSE b

\* seq[-n:], the last n elements (all of seq when it is shorter), n > 0.
LastN(seq, n) == IF Len(seq) > n THEN SubSeq(seq, Len(seq) - n + 1, Len(seq)) ELSE seq

(* ------------------------------- state -------------------------------- *)

VARIABLES
    CHUNK,          \* AudioClassifier.CHUNK
    env_model,      \* "loaded" or None (EnvSoundModel failed to load)
    p,              \* the PyAudio handle: "alive" or None
    stream,         \* "open" or None
    is_recording,   \* AudioClassifier.is_recording
    env_buffer,     \* rolling buffer: sequence of samples <<frame, position>>
    sos_state,      \* bandpass delay state: frames filtered since sosfilt_zi
    current_gain,   \* AudioProcessor.current_gain
    is_running,     \* SmartAudioSystem.is_running
    result,         \* what the last classify_audio / process_and_predict returned
    now,            \* clock, in frame periods
    infer_log,      \* times of the last two engine invocations
    quiet_run,      \* consecutive delivered frames that did not pass the gate
    hop_log,        \* the last hops: raw prediction and emitted label of each
    processed,      \* the last direct call of AudioProcessor.process (the
                    \* pipeline reports its own calls in result): what went
                    \* in and what came out
    appended,       \* the samples appended to the rolling buffer, oldest
                    \* first, by whole frames: a frame is forgotten once the
                    \* frames after it hold ENV_SAMPLES samples
    restarted,      \* SmartAudioSystem.start has returned and neither a frame
                    \* has been processed nor stop been called since
    tuning,         \* the last Tuning.read / Tuning.write call and its outcome
    pkg,            \* the AudioClassifier of the sound_service package
    recorder,       \* the DualAudioRecorder and its AudioProcessor
    gui,            \* the SmartAudioGUI, the SmartAudioSystem instances it
                    \* has created and its processing threads
    svc,            \* a SoundDetectionService, its loop thread, its history
                    \* and its statistics
    api             \* the REST API: the global service, the lock and the
                    \* services created so far

vars == <<CHUNK, env_model, p, stream, is_recording, env_buffer, sos_state,
          current_gain, is_running, result, now, infer_log, quiet_run, hop_log,
          processed, appended, restarted, tuning, pkg, recorder, gui, svc,
          api>>

\* The variables of the programs built on the conditioner and the classifier.
appVars == <<recorder, gui, svc, api>>

\* The variables of the USB control interface, of the packaged classifier and
\* of those programs.
deviceVars == <<tuning, pkg, appVars>>

(* ------------------- AudioProcessor (signal conditioner) -------------- *)

\* sosfilt_zi(sos): the delay state of construction and of reset_states.
SosInit == 0

\* apply_bandpass: sosfilt carries the delay state over; every filtered frame
\* leaves a new delay state.
ApplyBandpassState(s) == s + 1

\* apply_spectral_gate: np.fft.irfft(np.fft.rfft(chunk)) returns 2*(n//2) samples.
SpectralGateLen(n) == 2 * (n \div 2)

\* apply_agc, regime test and target gain for a post-gate RMS.
LowEnergy(rms) == rms < gate_threshold

ClampGainNoCeiling(t) == IF t < GainOne THEN GainOne ELSE t

ClampGain(t) ==
    LET capped == IF t > max_linear_gain THEN max_linear_gain ELSE t
    IN  IF capped < GainOne THEN GainOne ELSE capped

TargetGain(rms) ==
    IF LowEnergy(rms) THEN gate_ratio
    ELSE ClampGain((agc_target_rms * GainOne) \div rms)

Smoothing(rms) == IF LowEnergy(rms) THEN gate_smoothing ELSE agc_smooth

SmoothGainJump(gain, rms) == TargetGain(rms)

\* current_gain * (1 - smoothing) + target_gain * smoothing, rounded to 1e-4.
SmoothGain(gain, rms) ==
    (gain * (SmoothOne - Smoothing(rms)) + TargetGain(rms) * Smoothing(rms)
       + SmoothOne \div 2) \div SmoothOne

\* RMS of np.clip(chunk * current_gain, -1.0, 1.0).
AgcOutputRms(gain, rms) == Min((gain * rms) \div GainOne, RmsOne)

ResetGainRatio == gate_ratio

\* reset_states: the gain it restores.
ResetGain == GainOne

\* process: the length of what it returns.  An empty chunk is returned as it
\* is; any other comes back from the spectral gate.
ProcessLen(n) == IF n = 0 THEN 0 ELSE SpectralGateLen(n)

\* No process call yet.
NoProcess ==
    [called |-> FALSE, len_in |-> 0, len_out |-> 0, rms_in |-> 0, rms_out |-> 0]

\* What a caller of process(chunk) sees, for n samples whose post-gate RMS is
\* rms and a call that leaves the gain at gain: the lengths in and out, the
\* RMS before and after the gain.
Processed(n, rms, gain) ==
    IF n = 0
    THEN [called |-> TRUE, len_in |-> 0, len_out |-> 0, rms_in |-> 0, rms_out |-> 0]
    ELSE [called |-> TRUE, len_in |-> n, len_out |-> ProcessLen(n),
          rms_in |-> rms, rms_out |-> AgcOutputRms(gain, rms)]

(* ------------------------- AudioClassifier ---------------------------- *)

\* classify_sound on the features of a chunk.
ClassifySound(rms, zcr, centroid) ==
    IF rms < SILENCE_RMS_TH THEN "silence"
    ELSE IF SPEECH_RMS_MIN <= rms /\ rms <= SPEECH_RMS_MAX
            /\ SPEECH_ZCR_MIN <= zcr /\ zcr <= SPEECH_ZCR_MAX THEN "speech"
    ELSE IF rms >= MUSIC_RMS_MIN /\ zcr >= MUSIC_ZCR_MIN
            /\ centroid > MUSIC_CENTROID_MIN THEN "music"
    ELSE "noise"

\* The samples of frame f, n of them, in order.
Frame(f, n) == [i \in 1..n |-> <<f, i>>]

TrimBufferOffByOne(buf) ==
    IF Len(buf) > ENV_SAMPLES THEN LastN(buf, ENV_SAMPLES + 1) ELSE buf

\* env_buffer[-ENV_SAMPLES:] when the buffer is over capacity.
TrimBuffer(buf) ==
    IF Len(buf) > ENV_SAMPLES THEN LastN(buf, ENV_SAMPLES) ELSE buf

\* The append of _update_env_buffer_and_predict: concatenate, then trim.
AppendChunk(buf, chunk) == TrimBuffer(buf \o chunk)

WindowReadyDuration(buf) == Len(buf) >= ENV_WINDOW_DURATION

\* Whether the buffer is long enough for a prediction.
WindowReady(buf) == Len(buf) >= ENV_WINDOW_SAMPLES

SegmentOldest(buf) == SubSeq(buf, 1, Min(Len(buf), ENV_WINDOW_SAMPLES))

\* env_buffer[-ENV_WINDOW_SAMPLES:], the segment handed to the engine.
Segment(buf) == LastN(buf, ENV_WINDOW_SAMPLES)

\* classify_audio accepts a raw label only at or above the threshold.
Confident(conf) == conf >= ENV_CONF_THRESHOLD

ClsGateAnyFrame(sound_type, rms) == env_model # None

\* The gate in front of the engine in classify_audio.
ClsGate(sound_type, rms) ==
    env_model # None /\ sound_type # "silence" /\ rms > ENV_MIN_RMS

\* The gate in front of the engine in process_and_predict.
PipeGate(basic_type, rms) == basic_type # "silence" /\ rms > PIPE_MIN_RMS

(* ----------------------- Tuning (USB control) ------------------------- *)

\* Parameter names handed to read and write: the four of the table, one that
\* is not in it, and one that int() rejects.
Names == {"19", "21", "22", "6", "7", "abc"}

\* Values handed to write: one that int() accepts, one that it rejects.
Values == {"1", "abc"}

\* Whether int(s) succeeds.
IsNumeric(s) == s # "abc"

\* int(name)
IntOf(name) ==
    CASE name = "19" -> 19
      [] name = "21" -> 21
      [] name = "22" -> 22
      [] name = "6" -> 6
      [] name = "7" -> 7

ParamTypeAllInt(param_id) == "int"

\* params.get(param_id, 'int')
ParamType(param_id) == IF param_id = 6 THEN "float" ELSE "int"

\* Four bytes, little-endian two's complement: the words 3, 2, 12, 0, -1 sent
\* as a first integer and 2, 0, -1, 1023, 1024, -1075 sent as a second.
MantissaWords ==
    {<<3, 0, 0, 0>>, <<2, 0, 0, 0>>, <<12, 0, 0, 0>>, <<0, 0, 0, 0>>,
     <<255, 255, 255, 255>>}

ExponentWords ==
    {<<2, 0, 0, 0>>, <<0, 0, 0, 0>>, <<255, 255, 255, 255>>, <<255, 3, 0, 0>>,
     <<0, 4, 0, 0>>, <<205, 251, 255, 255>>}

\* What ctrl_transfer may hand back for a read of 8 bytes: two words, or a
\* response that is too short or too long.
Responses ==
    {m \o e : m \in MantissaWords, e \in ExponentWords}
        \cup {<<>>, <<3, 0, 0, 0>>, <<3, 0, 0, 0, 2, 0, 0, 0, 0>>}

\* The outcome of a ctrl_transfer: the bytes received, or the exception raised
\* (usb.core.USBError, or any other exception of the USB backend).
Received(bytes) == [exc |-> "none", bytes |-> bytes]

Failed(exc) == [exc |-> exc, bytes |-> <<>>]

ReadTransfers ==
    {Received(r) : r \in Responses} \cup {Failed("USBError"), Failed("OtherError")}

WriteTransfers == {Received(<<>>), Failed("USBError"), Failed("OtherError")}

\* Values a call returns: None, an int, a float m * 2^e with m odd (0.0 is
\* mant 0), or an infinity.
NoneValue == [type |-> "none", mant |-> 0, exp |-> 0]

IntValue(a) == [type |-> "int", mant |-> a, exp |-> 0]

RECURSIVE FloatValue(_, _)
FloatValue(m, e) ==
    IF m = 0 THEN [type |-> "float", mant |-> 0, exp |-> 0]
    ELSE IF m % 2 = 0 THEN FloatValue(m \div 2, e + 1)
    ELSE [type |-> "float", mant |-> m, exp |-> e]

InfValue(sign) == [type |-> "inf", mant |-> sign, exp |-> 0]

\* How a call ends: it returns ret, or raises exc.
Return(ret) == [exc |-> "none", ret |-> ret]

Raise(exc) == [exc |-> exc, ret |-> NoneValue]

\* One signed 32-bit integer of struct.unpack('ii', ...).
Int32(w) ==
    w[1] + 256 * w[2] + 65536 * w[3]
        + 16777216 * (IF w[4] >= 128 THEN w[4] - 256 ELSE w[4])

\* struct.unpack('ii', bytes(response)) on a response of 8 bytes.
Unpack(response) ==
    <<Int32(SubSeq(response, 1, 4)), Int32(SubSeq(response, 5, 8))>>

\* 2.0 ** b raises OverflowError above this exponent.
FLOAT_MAX_EXP == 1023

\* 2.0 ** b is 0.0 below this exponent.
FLOAT_MIN_EXP == 0 - 1074

Abs(a) == IF a < 0 THEN 0 - a ELSE a

RECURSIVE BitLen(_)
BitLen(n) == IF n = 0 THEN 0 ELSE 1 + BitLen(n \div 2)

\* result[0] * (2.0 ** result[1]) in double precision.
FloatProduct(a, b) ==
    IF b > FLOAT_MAX_EXP THEN Raise("OverflowError")
    ELSE IF a = 0 \/ b < FLOAT_MIN_EXP THEN Return(FloatValue(0, 0))
    ELSE IF BitLen(Abs(a)) - 1 + b > FLOAT_MAX_EXP
         THEN Return(InfValue(IF a < 0 THEN 0 - 1 ELSE 1))
    ELSE Return(FloatValue(a, b))

\* The try block of Tuning.read.
ReadBody(name, xfer) ==
    IF ~IsNumeric(name) THEN Raise("ValueError")
    ELSE IF xfer.exc # "none" THEN Raise(xfer.exc)
    ELSE IF Len(xfer.bytes) # 8 THEN Raise("struct.error")
    ELSE LET unpacked == Unpack(xfer.bytes)
         IN  IF ParamType(IntOf(name)) = "int"
             THEN Return(IntValue(unpacked[1]))
             ELSE FloatProduct(unpacked[1], unpacked[2])

ReadExceptUsbOnly(outcome) ==
    IF outcome.exc = "USBError" THEN Return(NoneValue) ELSE outcome

\* "except Exception as e: return None" of Tuning.read.
ReadExcept(outcome) ==
    IF outcome.exc # "none" THEN Return(NoneValue) ELSE outcome

\* The try block of Tuning.write: int(name), [int(value)], ctrl_transfer.
WriteBody(name, value, xfer) ==
    IF ~IsNumeric(name) \/ ~IsNumeric(value) THEN Raise("ValueError")
    ELSE IF xfer.exc # "none" THEN Raise(xfer.exc)
    ELSE Return(NoneValue)

\* "except usb.core.USBError as e: print(...)" of Tuning.write.
WriteExcept(outcome) ==
    IF outcome.exc = "USBError" THEN Return(NoneValue) ELSE outcome

\* The last call of Tuning: none yet, or a read or write and how it ended.
Transfer(op, name, value, xfer, outcome) ==
    [op |-> op, name |-> name, value |-> value, xfer |-> xfer, out |-> outcome]

NoTransfer == Transfer("none", "", "", Received(<<>>), Return(NoneValue))

(* ------------- AudioClassifier of the sound_service package ----------- *)

\* After __init__: a PyAudio instance, no stream.  twice records a release
\* (stream.stop_stream/close, p.terminate) made on a handle already released.
PkgState(pa, st, rec, twice) ==
    [p |-> pa, stream |-> st, is_recording |-> rec, twice |-> twice]

PkgInit == PkgState("alive", None, FALSE, FALSE)

(* -------------------- DualAudioRecorder (dual_recorder) --------------- *)

\* The recorder: its PyAudio handle, its stream (None, "open" or "closed"),
\* is_recording, the number of frames in frames_clean, the delay state and
\* the gain of its own AudioProcessor, and where its caller is ("idle", or
\* "loop" inside record_loop).
RecState(pa, st, isrec, n, sos, gain, pc) ==
    [p |-> pa, stream |-> st, is_recording |-> isrec, frames_clean |-> n,
     sos_state |-> sos, current_gain |-> gain, pc |-> pc]

RecInit == RecState("alive", None, FALSE, 0, SosInit, GainOne, "idle")

RecStartedNoReset(r, openOk) ==
    LET cleared == [r EXCEPT !.frames_clean = 0]
    IN  IF openOk
        THEN [cleared EXCEPT !.stream = "open", !.is_recording = TRUE]
        ELSE cleared

\* start_recording: the frame lists are emptied, the processor is reset, then
\* p.open inside try/except.  Whether p.open succeeds is an input also after
\* p.terminate(): PortAudio stays initialised while another PyAudio object of
\* the process is alive.
RecStarted(r, openOk) ==
    LET cleared == [r EXCEPT !.frames_clean = 0, !.sos_state = SosInit,
                             !.current_gain = ResetGain]
    IN  IF openOk
        THEN [cleared EXCEPT !.stream = "open", !.is_recording = TRUE]
        ELSE cleared

\* stop_and_save: stop_stream on a stream that is already closed raises and
\* the rest is skipped; otherwise the stream is closed, is_recording cleared
\* and the PyAudio handle terminated.
RecStopped(r) ==
    IF r.stream = "closed" THEN r
    ELSE [r EXCEPT !.stream = IF @ = None THEN None ELSE "closed",
                   !.is_recording = FALSE, !.p = "terminated"]

(* ------------------------- SmartAudioGUI (gui_app) -------------------- *)

\* A SmartAudioSystem as the GUI sees it: whether its stream is open, whether
\* start() and stop() have been called on it, and whether start() has been
\* called on it after stop().
GuiSystem(open, started, stopped, restart) ==
    [open |-> open, started |-> started, stopped |-> stopped,
     started_after_stop |-> restart]

\* A processing thread: where it is in processing_loop ("while", "if", "call",
\* "process", "done") and the instance its audio_system check saw (0: none).
GuiThread(pc, sys) == [pc |-> pc, sys |-> sys]

\* The GUI after __init__: audio_system is an index into the instances
\* created so far, 0 for None.
GuiInit ==
    [is_running |-> FALSE, audio_system |-> 0, closed |-> FALSE,
     instances |-> <<>>, threads |-> <<>>]

\* What check_hardware_ready may meet: the device answers, connect() fails,
\* or an exception is raised.
HardwareChecks == {"ready", "absent", "error"}

\* SmartAudioSystem.start() on instance i: start_stream returns at once on an
\* open stream, else p.open raises on a stopped instance (p is None) or when
\* the device fails.
GuiSystemStartRaises(g, i, openOk) ==
    ~g.instances[i].open /\ (g.instances[i].stopped \/ ~openOk)

GuiSystemStarted(g, i, openOk) ==
    [g EXCEPT !.instances[i] =
        GuiSystem(@.open \/ ~GuiSystemStartRaises(g, i, openOk), TRUE,
                  @.stopped, @.started_after_stop \/ @.stopped)]

GuiStoppedKeepsSystem(g) ==
    LET i == g.audio_system
    IN  [g EXCEPT !.is_running = FALSE,
                  !.instances = IF i = 0 THEN @
                                ELSE [@ EXCEPT ![i].open = FALSE,
                                               ![i].stopped = TRUE]]

\* stop_system: is_running cleared, audio_system.stop() if there is one, and
\* audio_system = None in the finally.
GuiStopped(g) ==
    LET i == g.audio_system
    IN  [g EXCEPT !.is_running = FALSE,
                  !.audio_system = 0,
                  !.instances = IF i = 0 THEN @
                                ELSE [@ EXCEPT ![i].open = FALSE,
                                               ![i].stopped = TRUE]]

\* check_hardware_ready that returns True: a SmartAudioSystem is created when
\* audio_system is None.
GuiChecked(g) ==
    IF g.audio_system # 0 THEN g
    ELSE [g EXCEPT !.instances = Append(@, GuiSystem(FALSE, FALSE, FALSE, FALSE)),
                   !.audio_system = Len(g.instances) + 1]

(* ----------------- SoundDetectionService (sound_service) -------------- *)

SoundTypes == {"unknown", "silence", "speech", "music", "noise"}

\* Number of LEDs, and of bins of the direction histogram.
NUM_LEDS == 12

\* Tuning.TIMEOUT, thread.join(timeout=5) and sleep(1), the longer of the two
\* sleeps of the loop, in milliseconds.
TUNING_TIMEOUT == 100000

JOIN_TIMEOUT == 5000

BACKOFF_SLEEP == 1000

\* No service constructed yet.
SvcAbsent == [constructed |-> FALSE]

\* SoundDetectionService(enable_audio_classification=enable): thread is where
\* the loop thread is ("none": not started, "while": at the loop test or in
\* a sleep, "device": in the reads of the detector, "done": ended);
\* start_result and stop_state record what start() returned and how far
\* stop() has come; logged is every event ever handed to history.append and
\* last_bin the histogram bin of the last iteration (<<>>: none).
SvcNew(enable) ==
    [constructed |-> TRUE, requested |-> enable,
     enable_audio_classification |-> enable,
     is_running |-> FALSE, connected |-> FALSE,
     stream |-> None, p |-> IF enable THEN "alive" ELSE None,
     thread |-> "none", start_result |-> None, stop_state |-> "none",
     history |-> <<>>, logged |-> <<>>,
     total_detections |-> 0, vad_count |-> 0, speech_count |-> 0,
     sound_types |-> [st \in SoundTypes |-> 0],
     direction_histogram |-> [b \in 0..(NUM_LEDS - 1) |-> 0],
     last_bin |-> <<>>]

\* AudioClassifier.start_stream of src/audio_classifier.py calls start() and
\* returns nothing.
StartStreamReturn == None

\* Truth value of what start_stream returned.
Truthy(v) == v = "True"

\* AudioClassifier.start: p.open raises when the handle is gone or the device
\* fails.
StartStreamRaises(s, openOk) == s.stream = None /\ ~(s.p # None /\ openOk)

\* SoundDetectionService.start(): connect, start_stream when classification
\* is enabled (switched off when start_stream returns a false value), then
\* is_running and the loop thread.
SvcStarted(s, connectOk, openOk) ==
    IF ~connectOk THEN [s EXCEPT !.start_result = "False"]
    ELSE LET c == [s EXCEPT !.connected = TRUE]
         IN  IF c.enable_audio_classification /\ StartStreamRaises(c, openOk)
             THEN [c EXCEPT !.start_result = "raised"]
             ELSE LET o == IF c.enable_audio_classification
                           THEN [c EXCEPT !.stream = "open",
                                          !.enable_audio_classification =
                                              Truthy(StartStreamReturn)]
                           ELSE c
                  IN  [o EXCEPT !.is_running = TRUE, !.thread = "while",
                                !.start_result = "True"]

\* The longest the loop thread may stay where it is.
MaxStay(pc) ==
    IF pc = "device" THEN TUNING_TIMEOUT
    ELSE IF pc = "while" THEN BACKOFF_SLEEP
    ELSE 0

\* thread.join(timeout=5) returns when the thread has ended, or when the
\* timeout expires first.
JoinReturns(s) ==
    \/ s.thread \in {"none", "done"}
    \/ MaxStay(s.thread) > JOIN_TIMEOUT

\* stop() up to the join.
SvcStopBegun(s) == [s EXCEPT !.is_running = FALSE, !.stop_state = "joining"]

\* stop() after the join: disconnect and audio_classifier.cleanup().
SvcStopEnded(s) ==
    [s EXCEPT !.connected = FALSE, !.stream = None, !.p = None,
              !.stop_state = "returned"]

\* "while self.is_running"
SvcWhile(s) ==
    [s EXCEPT !.thread = IF s.is_running THEN "device" ELSE "done"]

\* What the detector answers in one iteration: vad, speech, and the direction
\* as <<angle>> or <<>> for None.
Reading(vad, speech, doa) == [vad |-> vad, speech |-> speech, doa |-> doa]

Readings ==
    {Reading(FALSE, FALSE, <<>>), Reading(TRUE, TRUE, <<350>>),
     Reading(TRUE, FALSE, <<90>>), Reading(FALSE, TRUE, <<0 - 20>>),
     Reading(FALSE, FALSE, <<344>>)}

\* What classify_sound makes of the chunk read; None when no chunk was read.
AudioOutcomes == {None, "music"}

\* The detector answers False and None when it is not connected.
Detected(s, r) ==
    IF s.connected THEN r ELSE Reading(FALSE, FALSE, <<>>)

\* The sound type of an iteration.
SvcSoundType(s, vad, audio) ==
    IF s.enable_audio_classification
    THEN IF audio = None \/ s.stream = None THEN "unknown" ELSE audio
    ELSE IF vad THEN "speech" ELSE "silence"

LedBinNoWrap(direction) == (direction + 15) \div 30

\* int((direction + 15) % 360 / 30) % 12
LedBin(direction) == (((direction + 15) % 360) \div 30) % NUM_LEDS

\* _update_statistics
SvcStatistics(s, r, sound_type) ==
    [s EXCEPT !.total_detections = @ + 1,
              !.vad_count = IF r.vad THEN @ + 1 ELSE @,
              !.speech_count = IF r.speech THEN @ + 1 ELSE @,
              !.sound_types[sound_type] = @ + 1,
              !.direction_histogram =
                  IF r.doa = <<>> THEN @
                  ELSE [b \in DOMAIN @ |->
                           IF b = LedBin(r.doa[1]) THEN @[b] + 1 ELSE @[b]],
              !.last_bin = IF r.doa = <<>> THEN <<>> ELSE <<LedBin(r.doa[1])>>]

EventfulAlways(vad, sound_type) == TRUE

\* The condition under which the loop saves the state to the history.
Eventful(vad, sound_type) == vad \/ sound_type # "silence"

\* deque(maxlen=history_size).append
DequeAppend(h, ev) == LastN(Append(h, ev), HistorySize)

\* One iteration of _run_loop after the reads: statistics, then history; the
\* event carries the number of the iteration as its timestamp.
SvcIterated(s, reading, audio) ==
    LET r == Detected(s, reading)
        sound_type == SvcSoundType(s, r.vad, audio)
        st == SvcStatistics(s, r, sound_type)
        ev == [timestamp |-> st.total_detections, vad |-> r.vad,
               speech |-> r.speech, direction |-> r.doa,
               sound_type |-> sound_type]
    IN  IF Eventful(r.vad, sound_type)
        THEN [st EXCEPT !.history = DequeAppend(@, ev),
                        !.logged = Append(@, ev), !.thread = "while"]
        ELSE [st EXCEPT !.thread = "while"]

\* seq[k:] of Python for any integer k.
PySliceFrom(seq, k) ==
    LET start == IF k >= 0 THEN Min(k, Len(seq))
                 ELSE IF Len(seq) + k > 0 THEN Len(seq) + k ELSE 0
    IN  SubSeq(seq, start + 1, Len(seq))

\* get_history(limit): list(self.history)[-limit:]
GetHistory(s, limit) == PySliceFrom(s.history, 0 - limit)

(* ------------------------------ REST API (api) ------------------------ *)

\* A request served and the answer given: outcome is what service.start()
\* did in a /start that reached it.
ApiAnswer(request, response, outcome) ==
    [request |-> request, response |-> response, outcome |-> outcome]

\* The module after import: service is an index into the services created
\* so far (0 for None), lock is "free" or names the handler that holds
\* service_lock across steps.
ApiInit ==
    [service |-> 0, lock |-> "free", requests |-> 0,
     last |-> ApiAnswer(None, None, None), instances |-> <<>>]

\* "service is not None and service.is_running"
ApiRunning(a) == a.service # 0 /\ a.instances[a.service].is_running

\* start_service past the check: a new service is bound to the global, then
\* started; service = None when start() returns False, and an exception of
\* start() leaves the handler at once.
ApiStarted(a, enable, connectOk, openOk) ==
    LET n == Len(a.instances) + 1
        started == SvcStarted(SvcNew(enable), connectOk, openOk)
        outcome == started.start_result
    IN  [a EXCEPT !.instances = Append(@, started),
                  !.service = IF outcome = "False" THEN 0 ELSE n,
                  !.last = ApiAnswer("start",
                                     IF outcome = "True" THEN "success"
                                     ELSE "failure", outcome)]

(* ------------------------------ records ------------------------------- *)

\* What a cycle returns.  delivered: a frame was read; rms: features["rms"] of
\* the classified chunk; invoked: the engine
\* (EnvSoundModel.predict_from_waveform) ran, on `segment`, and returned
\* (raw_label, raw_conf).
Record(kind, delivered, btype, rms, label, conf, rawl, rawc, invoked, seg) ==
    [kind |-> kind, delivered |-> delivered, basic_type |-> btype, rms |-> rms,
     env_label |-> label, env_conf |-> conf,
     raw_label |-> rawl, raw_conf |-> rawc,
     invoked |-> invoked, segment |-> seg]

\* classify_audio returns (SoundType.UNKNOWN, {}) and process_and_predict
\* returns None when no frame could be read.
NoFrame(kind) == Record(kind, FALSE, "unknown", 0, None, 0, None, 0, FALSE, <<>>)

EnvUpdateNoGuard(chunk) ==
    LET b == AppendChunk(env_buffer, chunk)
    IN  [buf |-> b, invoked |-> WindowReady(b)]

\* _update_env_buffer_and_predict(chunk): the buffer it leaves and whether it
\* reaches the engine.
EnvUpdate(chunk) ==
    IF env_model = None
    THEN [buf |-> env_buffer, invoked |-> FALSE]
    ELSE LET b == AppendChunk(env_buffer, chunk)
         IN  [buf |-> b, invoked |-> WindowReady(b)]

\* The label classify_audio emits for a raw prediction.
ClsLabel(rawl, rawc) == IF Confident(rawc) THEN rawl ELSE None

\* The label process_and_predict emits for a raw prediction ("if raw_label:").
PipeLabel(rawl, rawc) == rawl

(* --------------------- observers (history variables) ------------------ *)

\* Hop interval of spec section 4.2, in frame periods.
HOP_INTERVAL == 2

\* RESET_SILENCE_SECONDS of spec section 4.3, in frame periods.
RESET_SILENCE_FRAMES == 2

\* SWITCH_STREAK_REQUIRED of spec section 4.3.
SWITCH_STREAK_REQUIRED == 2

\* SWITCH_CONF_THRESHOLD of spec section 4.3, in percent.
SWITCH_CONF_THRESHOLD == 80

LogInference(invoked, t) ==
    IF invoked THEN LastN(Append(infer_log, t), 2) ELSE infer_log

LogQuiet(quiet) ==
    IF quiet THEN Min(quiet_run + 1, RESET_SILENCE_FRAMES) ELSE 0

LogHop(invoked, rawl, rawc, label) ==
    IF invoked
    THEN LastN(Append(hop_log, [raw_label |-> rawl, raw_conf |-> rawc,
                                env_label |-> label]),
               SWITCH_STREAK_REQUIRED + 1)
    ELSE <<>>

\* The frames of seq that can still be among its last ENV_SAMPLES samples.
RECURSIVE RecentFrames(_)
RecentFrames(seq) ==
    IF seq = <<>> THEN seq
    ELSE LET later == SelectSeq(seq, LAMBDA s : s[1] # seq[1][1])
         IN  IF Len(later) >= ENV_SAMPLES THEN RecentFrames(later) ELSE seq

\* The chunk is appended when the gate in front of the engine passes and the
\* engine is loaded.
LogAppend(gate, chunk) ==
    IF gate /\ env_model # None THEN RecentFrames(appended \o chunk)
    ELSE appended

(* ------------------------------ actions ------------------------------- *)

Init ==
    /\ CHUNK \in ChunkSizes
    /\ env_model \in {"loaded", None}
    /\ p = "alive"
    /\ stream = None
    /\ is_recording = FALSE
    /\ env_buffer = <<>>
    /\ sos_state = SosInit
    /\ current_gain = GainOne
    /\ is_running = FALSE
    /\ result = NoFrame("none")
    /\ now = 0
    /\ infer_log = <<>>
    /\ quiet_run = 0
    /\ hop_log = <<>>
    /\ processed = NoProcess
    /\ appended = <<>>
    /\ restarted = FALSE
    /\ tuning = NoTransfer
    /\ pkg = PkgInit
    /\ recorder = RecInit
    /\ gui = GuiInit
    /\ svc = SvcAbsent
    /\ api = ApiInit

\* read_audio_chunk delivers a frame only on an open, recording stream.
CanRead == stream # None /\ is_recording

\* AudioClassifier.start: returns at once on an open stream; p.open raises when
\* the PyAudio handle is gone (p is None after stop) or the device fails.
StartOpens(openOk) == stream = None /\ p # None /\ openOk

StartRaises(openOk) == stream = None /\ ~(p # None /\ openOk)

\* AudioProcessor.reset_states()
ResetStates ==
    /\ sos_state' = SosInit
    /\ current_gain' = ResetGain
    /\ UNCHANGED <<CHUNK, env_model, p, stream, is_recording, env_buffer,
                   is_running, result, now, infer_log, quiet_run, hop_log,
                   processed, appended, restarted, deviceVars>>

\* SmartAudioSystem.start(): start_stream, then is_running, then reset_states;
\* an exception of start_stream leaves the rest undone.
SysStart(openOk) ==
    /\ IF StartOpens(openOk)
       THEN stream' = "open" /\ is_recording' = TRUE
       ELSE UNCHANGED <<stream, is_recording>>
    /\ IF StartRaises(openOk)
       THEN UNCHANGED <<is_running, sos_state, current_gain, restarted>>
       ELSE /\ is_running' = TRUE
            /\ sos_state' = SosInit
            /\ current_gain' = ResetGain
            /\ restarted' = TRUE
    /\ UNCHANGED <<CHUNK, env_model, p, env_buffer, result, now, infer_log,
                   quiet_run, hop_log, processed, appended, deviceVars>>

\* SmartAudioSystem.stop()
SysStop ==
    /\ is_running' = FALSE
    /\ stream' = None
    /\ p' = None
    /\ is_recording' = FALSE
    /\ restarted' = FALSE
    /\ UNCHANGED <<CHUNK, env_model, env_buffer, sos_state, current_gain,
                   result, now, infer_log, quiet_run, hop_log, processed,
                   appended, deviceVars>>

\* A cycle whose read fails: read_audio_chunk returns None.
ClassifyAudioNoFrame ==
    /\ result' = NoFrame("cls")
    /\ UNCHANGED <<CHUNK, env_model, p, stream, is_recording, env_buffer,
                   sos_state, current_gain, is_running, now, infer_log,
                   quiet_run, hop_log, processed, appended, restarted, deviceVars>>

ProcessAndPredictNoFrameFiltered ==
    /\ result' = NoFrame("pipe")
    /\ sos_state' = ApplyBandpassState(sos_state)
    /\ UNCHANGED <<CHUNK, env_model, p, stream, is_recording, env_buffer,
                   current_gain, is_running, now, infer_log, quiet_run,
                   hop_log, processed, appended, restarted, deviceVars>>

ProcessAndPredictNoFrame ==
    /\ result' = NoFrame("pipe")
    /\ UNCHANGED <<CHUNK, env_model, p, stream, is_recording, env_buffer,
                   sos_state, current_gain, is_running, now, infer_log,
                   quiet_run, hop_log, processed, appended, restarted, deviceVars>>

\* AudioClassifier.classify_audio() on a delivered frame with features f;
\* pr is what the engine answers if it is invoked.
ClassifyAudio(f, pr) ==
    /\ CanRead
    /\ now < MaxFrames
    /\ now' = now + 1
    /\ LET rms == f.rms
           rawl == pr.label
           rawc == pr.conf
           sound_type == ClassifySound(rms, f.zcr, f.centroid)
           gate == ClsGate(sound_type, rms)
           upd == IF gate THEN EnvUpdate(Frame(now', CHUNK))
                  ELSE [buf |-> env_buffer, invoked |-> FALSE]
           label == IF upd.invoked THEN ClsLabel(rawl, rawc) ELSE None
           conf == IF upd.invoked THEN rawc ELSE 0
       IN  /\ env_buffer' = upd.buf
           /\ result' = Record("cls", TRUE, sound_type, rms, label, conf,
                               IF upd.invoked THEN rawl ELSE None,
                               IF upd.invoked THEN rawc ELSE 0,
                               upd.invoked,
                               IF upd.invoked THEN Segment(upd.buf) ELSE <<>>)
           /\ infer_log' = LogInference(upd.invoked, now')
           /\ quiet_run' = LogQuiet(sound_type = "silence" \/ rms <= ENV_MIN_RMS)
           /\ hop_log' = LogHop(upd.invoked, rawl, rawc, label)
           /\ appended' = LogAppend(gate, Frame(now', CHUNK))
    /\ UNCHANGED <<CHUNK, env_model, p, stream, is_recording, sos_state,
                   current_gain, is_running, processed, restarted, deviceVars>>

\* SmartAudioSystem.process_and_predict() on a delivered frame whose RMS after
\* bandpass and spectral gate is f.rms; f.zcr and f.centroid are those of the
\* conditioned frame; pr is what the engine answers if it is invoked.
ProcessAndPredict(f, pr) ==
    /\ CanRead
    /\ now < MaxFrames
    /\ now' = now + 1
    /\ sos_state' = ApplyBandpassState(sos_state)
    /\ current_gain' = SmoothGain(current_gain, f.rms)
    /\ LET rms_clean == AgcOutputRms(current_gain', f.rms)
           rawl == pr.label
           rawc == pr.conf
           basic_type == ClassifySound(rms_clean, f.zcr, f.centroid)
           gate == PipeGate(basic_type, rms_clean)
           upd == IF gate THEN EnvUpdate(Frame(now', SpectralGateLen(CHUNK)))
                  ELSE [buf |-> env_buffer, invoked |-> FALSE]
           label == IF upd.invoked THEN PipeLabel(rawl, rawc) ELSE None
           conf == IF upd.invoked THEN rawc ELSE 0
       IN  /\ env_buffer' = upd.buf
           /\ result' = Record("pipe", TRUE, basic_type, rms_clean, label, conf,
                               IF upd.invoked THEN rawl ELSE None,
                               IF upd.invoked THEN rawc ELSE 0,
                               upd.invoked,
                               IF upd.invoked THEN Segment(upd.buf) ELSE <<>>)
           /\ infer_log' = LogInference(upd.invoked, now')
           /\ quiet_run' = LogQuiet(basic_type = "silence" \/ rms_clean <= PIPE_MIN_RMS)
           /\ hop_log' = LogHop(upd.invoked, rawl, rawc, label)
           /\ appended' = LogAppend(gate, Frame(now', SpectralGateLen(CHUNK)))
    /\ restarted' = FALSE
    /\ UNCHANGED <<CHUNK, env_model, p, stream, is_recording, is_running,
                   processed, deviceVars>>

\* AudioProcessor.process(chunk) called on its own, on a chunk of n samples
\* whose RMS after bandpass and spectral gate is rms: an empty chunk returns
\* at once, any other runs bandpass, spectral gate and AGC.
Process(n, rms) ==
    /\ IF n = 0
       THEN UNCHANGED <<sos_state, current_gain>>
       ELSE /\ sos_state' = ApplyBandpassState(sos_state)
            /\ current_gain' = SmoothGain(current_gain, rms)
    /\ processed' = Processed(n, rms, current_gain')
    /\ UNCHANGED <<CHUNK, env_model, p, stream, is_recording, env_buffer,
                   is_running, result, now, infer_log, quiet_run, hop_log,
                   appended, restarted, deviceVars>>

\* The pipeline's variables, which the USB control interface and the packaged
\* classifier never touch.
pipelineVars ==
    <<CHUNK, env_model, p, stream, is_recording, env_buffer, sos_state,
      current_gain, is_running, result, now, infer_log, quiet_run, hop_log,
      processed, appended, restarted>>

\* Tuning.read(name), the control transfer ending as xfer.
TuningRead(name, xfer) ==
    /\ tuning' = Transfer("read", name, "", xfer, ReadExcept(ReadBody(name, xfer)))
    /\ UNCHANGED <<pipelineVars, pkg, appVars>>

\* Tuning.write(name, value), the control transfer ending as xfer.
TuningWrite(name, value, xfer) ==
    /\ tuning' = Transfer("write", name, value, xfer,
                          WriteExcept(WriteBody(name, value, xfer)))
    /\ UNCHANGED <<pipelineVars, pkg, appVars>>

\* start_stream of the packaged classifier: p.open inside try/except; a new
\* stream replaces whatever self.stream held.
PkgStartStream(openOk) ==
    /\ IF pkg.p = "alive" /\ openOk
       THEN pkg' = [pkg EXCEPT !.stream = "open", !.is_recording = TRUE]
       ELSE UNCHANGED pkg
    /\ UNCHANGED <<pipelineVars, tuning, appVars>>

\* stop_stream of the packaged classifier: self.stream is stopped and closed
\* but stays referenced.
PkgStopped(s) ==
    IF s.stream # None
    THEN [s EXCEPT !.stream = "closed", !.is_recording = FALSE,
                   !.twice = s.twice \/ s.stream = "closed"]
    ELSE s

PkgStopStream ==
    /\ pkg' = PkgStopped(pkg)
    /\ UNCHANGED <<pipelineVars, tuning, appVars>>

\* cleanup of the packaged classifier (stop is its alias): stop_stream, then
\* p.terminate().
PkgTerminated(s) ==
    [s EXCEPT !.p = "terminated", !.twice = s.twice \/ s.p = "terminated"]

PkgCleanup ==
    /\ pkg' = PkgTerminated(PkgStopped(pkg))
    /\ UNCHANGED <<pipelineVars, tuning, appVars>>

\* Everything but the recorder.
notRec == <<pipelineVars, tuning, pkg, gui, svc, api>>

\* DualAudioRecorder.start_recording()
RecStartRecording(openOk) ==
    /\ recorder.pc = "idle"
    /\ recorder' = RecStarted(recorder, openOk)
    /\ UNCHANGED notRec

\* record_loop up to its first read: start_recording unless is_recording.
RecRecordLoop(openOk) ==
    /\ recorder.pc = "idle"
    /\ LET r == IF recorder.is_recording THEN recorder
                ELSE RecStarted(recorder, openOk)
       IN  recorder' = [r EXCEPT !.pc = "loop"]
    /\ UNCHANGED notRec

\* One iteration of record_loop: a frame is read, processed and appended to
\* frames_clean; rms is its RMS after bandpass and spectral gate.
RecFrame(rms) ==
    /\ recorder.pc = "loop"
    /\ recorder.stream = "open"
    /\ recorder.frames_clean < MaxFrames
    /\ recorder' = [recorder EXCEPT !.sos_state = ApplyBandpassState(@),
                          !.current_gain = SmoothGain(@, rms),
                          !.frames_clean = @ + 1]
    /\ UNCHANGED notRec

\* stop_and_save: the finally of record_loop (the duration is over, or the
\* read raised), or a call of its own.
RecStopAndSave ==
    /\ recorder' = [RecStopped(recorder) EXCEPT !.pc = "idle"]
    /\ UNCHANGED notRec

\* Everything but the GUI.
notGui == <<pipelineVars, tuning, pkg, recorder, svc, api>>

\* start_system, a press of Start (root.update() also serves a press queued
\* before the button was disabled): the hardware check, then
\* audio_system.start() and a new processing thread; an exception of start()
\* ends in stop_system.
GuiStartSystem(hw, openOk) ==
    /\ ~gui.closed
    /\ IF hw = "absent" THEN UNCHANGED gui
       ELSE IF hw = "error" THEN gui' = [gui EXCEPT !.audio_system = 0]
       ELSE /\ gui.audio_system = 0 => Len(gui.instances) < MaxInstances
            /\ LET g == GuiChecked(gui)
                   i == g.audio_system
                   h == GuiSystemStarted([g EXCEPT !.is_running = TRUE], i, openOk)
               IN  IF GuiSystemStartRaises(g, i, openOk)
                   THEN gui' = GuiStopped(h)
                   ELSE /\ Len(gui.threads) < MaxThreads
                        /\ gui' = [h EXCEPT !.threads =
                                       Append(@, GuiThread("while", 0))]
    /\ UNCHANGED notGui

\* stop_system, a press of Stop.
GuiStopSystem ==
    /\ ~gui.closed
    /\ gui' = GuiStopped(gui)
    /\ UNCHANGED notGui

\* on_closing: audio_system.stop(), then the process exits.
GuiOnClosing ==
    /\ ~gui.closed
    /\ gui' = [GuiStoppedKeepsSystem(gui) EXCEPT !.closed = TRUE]
    /\ UNCHANGED notGui

\* processing_loop, "while self.is_running".
GuiLoopWhile(t) ==
    /\ ~gui.closed
    /\ gui.threads[t].pc = "while"
    /\ gui' = [gui EXCEPT !.threads[t].pc =
                   IF gui.is_running THEN "if" ELSE "done"]
    /\ UNCHANGED notGui

\* processing_loop, "if self.audio_system": otherwise sleep and loop.
GuiLoopIf(t) ==
    /\ ~gui.closed
    /\ gui.threads[t].pc = "if"
    /\ gui' = [gui EXCEPT !.threads[t] =
                   IF gui.audio_system # 0
                   THEN GuiThread("call", gui.audio_system)
                   ELSE GuiThread("while", 0)]
    /\ UNCHANGED notGui

\* processing_loop, "self.audio_system.process_and_predict": the attribute is
\* read again; on None the AttributeError ends the loop.
GuiLoopCall(t) ==
    /\ ~gui.closed
    /\ gui.threads[t].pc = "call"
    /\ gui' = [gui EXCEPT !.threads[t] =
                   IF gui.audio_system # 0
                   THEN GuiThread("process", gui.audio_system)
                   ELSE GuiThread("done", 0)]
    /\ UNCHANGED notGui

\* process_and_predict returns (a result, or None from a stream that does not
\* deliver); the thread sleeps and loops.
GuiLoopReturn(t) ==
    /\ ~gui.closed
    /\ gui.threads[t].pc = "process"
    /\ gui' = [gui EXCEPT !.threads[t] = GuiThread("while", 0)]
    /\ UNCHANGED notGui

\* Everything but the service.
notSvc == <<pipelineVars, tuning, pkg, recorder, gui, api>>

\* SoundDetectionService(...)
SvcConstruct(enable) ==
    /\ ~svc.constructed
    /\ svc' = SvcNew(enable)
    /\ UNCHANGED notSvc

\* start() on a service that has not been started
SvcStart(connectOk, openOk) ==
    /\ svc.constructed
    /\ svc.start_result = None
    /\ svc.stop_state = "none"
    /\ svc' = SvcStarted(svc, connectOk, openOk)
    /\ UNCHANGED notSvc

\* stop() is called: is_running is cleared and the caller waits in join.
SvcStopBegin ==
    /\ svc.constructed
    /\ svc.stop_state = "none"
    /\ svc' = SvcStopBegun(svc)
    /\ UNCHANGED notSvc

\* join has returned; stop() disconnects, cleans up and returns.
SvcStopEnd ==
    /\ svc.constructed
    /\ svc.stop_state = "joining"
    /\ JoinReturns(svc)
    /\ svc' = SvcStopEnded(svc)
    /\ UNCHANGED notSvc

\* The loop thread tests is_running.
SvcLoopWhile ==
    /\ svc.constructed
    /\ svc.thread = "while"
    /\ svc.is_running => svc.total_detections < MaxIterations
    /\ svc' = SvcWhile(svc)
    /\ UNCHANGED notSvc

\* The loop thread completes an iteration.
SvcLoopIteration(reading, audio) ==
    /\ svc.constructed
    /\ svc.thread = "device"
    /\ svc' = SvcIterated(svc, reading, audio)
    /\ UNCHANGED notSvc

\* Everything but the REST API.
notApi == <<pipelineVars, tuning, pkg, recorder, gui, svc>>

\* POST /start, the whole handler under service_lock.
ApiStart(enable, connectOk, openOk) ==
    /\ api.lock = "free"
    /\ api.requests < MaxRequests
    /\ LET a == [api EXCEPT !.requests = @ + 1]
       IN  IF ApiRunning(api)
           THEN api' = [a EXCEPT !.last = ApiAnswer("start", "failure", None)]
           ELSE api' = ApiStarted(a, enable, connectOk, openOk)
    /\ UNCHANGED notApi

\* POST /stop with no service running.
ApiStopRejected ==
    /\ api.lock = "free"
    /\ api.requests < MaxRequests
    /\ ~ApiRunning(api)
    /\ api' = [api EXCEPT !.requests = @ + 1,
                          !.last = ApiAnswer("stop", "failure", None)]
    /\ UNCHANGED notApi

\* POST /stop with a service running: the handler takes the lock and calls
\* service.stop(), which waits in join.
ApiStopBegin ==
    /\ api.lock = "free"
    /\ api.requests < MaxRequests
    /\ ApiRunning(api)
    /\ api' = [api EXCEPT !.requests = @ + 1, !.lock = "stop",
                          !.last = ApiAnswer("stop", None, None),
                          !.instances[api.service] = SvcStopBegun(@)]
    /\ UNCHANGED notApi

\* service.stop() returns; service = None and the lock is released.
ApiStopEnd ==
    /\ api.lock = "stop"
    /\ JoinReturns(api.instances[api.service])
    /\ api' = [api EXCEPT !.instances[api.service] = SvcStopEnded(@),
                          !.service = 0, !.lock = "free",
                          !.last = ApiAnswer("stop", "success", None)]
    /\ UNCHANGED notApi

\* The loop thread of service i tests is_running.
ApiLoopWhile(i) ==
    /\ api.instances[i].thread = "while"
    /\ api.instances[i].is_running =>
           api.instances[i].total_detections < MaxIterations
    /\ api' = [api EXCEPT !.instances[i] = SvcWhile(@)]
    /\ UNCHANGED notApi

\* The loop thread of service i completes an iteration.
ApiLoopIteration(i, reading) ==
    /\ api.instances[i].thread = "device"
    /\ api' = [api EXCEPT !.instances[i] = SvcIterated(@, reading, None)]
    /\ UNCHANGED notApi

Lifecycle ==
    \/ \E openOk \in BOOLEAN : SysStart(openOk)
    \/ SysStop
    \/ ResetStates
    \/ ClassifyAudioNoFrame
    \/ ProcessAndPredictNoFrame

Next ==
    \/ Lifecycle
    \/ \E f \in FrameKinds, pr \in SomePreds : ClassifyAudio(f, pr)
    \/ \E f \in FrameKinds, pr \in SomePreds : ProcessAndPredict(f, pr)

\* The classifier and the pipeline, on every kind of frame.
Spec == Init /\ [][Next]_vars

\* The pipeline on input that stays below the AGC gate threshold.
NextQuiet ==
    \/ Lifecycle
    \/ \E f \in QuietKinds, pr \in SomePreds : ProcessAndPredict(f, pr)

SpecQuiet == Init /\ [][NextQuiet]_vars

\* The classifier and the pipeline on loud frames, with every answer of the
\* engine; frames as long as the window, so that every frame is a hop.
InitHops == Init /\ CHUNK = ENV_WINDOW_SAMPLES /\ env_model # None

NextHops ==
    \/ \E openOk \in BOOLEAN : SysStart(openOk)
    \/ SysStop
    \/ \E pr \in AllPreds : ClassifyAudio(MusicFrame, pr)
    \/ \E pr \in AllPreds : ProcessAndPredict(MusicFrame, pr)

SpecHops == InitHops /\ [][NextHops]_vars

\* The signal conditioner on its own.
NextAGC ==
    \/ \E n \in AgcLengths, rms \in RmsLevels :
           sos_state < MaxAgcFrames /\ Process(n, rms)
    \/ ResetStates

InitAGC == Init /\ CHUNK = ENV_WINDOW_SAMPLES /\ env_model = None

SpecAGC == InitAGC /\ [][NextAGC]_vars

\* The pipeline on its own, on every kind of frame.
NextPipe ==
    \/ Lifecycle
    \/ \E f \in FrameKinds, pr \in SomePreds : ProcessAndPredict(f, pr)

SpecPipe == Init /\ [][NextPipe]_vars

\* The signal conditioner on an input whose post-gate RMS is the same on
\* every frame.
NextSteady ==
    \E rms \in RmsLevels :
        /\ sos_state < MaxSteadyFrames
        /\ processed.called => processed.rms_in = rms
        /\ Process(ENV_WINDOW_SAMPLES, rms)

SpecSteady == InitAGC /\ [][NextSteady]_vars /\ WF_vars(NextSteady)

\* The USB control interface on its own.
NextTuning ==
    \/ \E name \in Names, xfer \in ReadTransfers : TuningRead(name, xfer)
    \/ \E name \in Names, value \in Values, xfer \in WriteTransfers :
           TuningWrite(name, value, xfer)

SpecTuning == InitAGC /\ [][NextTuning]_vars

\* Starting and stopping, of the pipeline and of the packaged classifier,
\* with frames in between.
NextStop ==
    \/ \E openOk \in BOOLEAN : SysStart(openOk)
    \/ SysStop
    \/ ProcessAndPredictNoFrame
    \/ ProcessAndPredict(SpeechFrame, Pred("dog", 100))
    \/ \E openOk \in BOOLEAN : PkgStartStream(openOk)
    \/ PkgStopStream
    \/ PkgCleanup

SpecStop == InitAGC /\ [][NextStop]_vars

\* Rms of the frames the recorder captures: below the AGC gate and loud.
RecRmsLevels == {110, 3000}

\* Restarts of the pipeline and of the recorder, with frames in between.
NextRestart ==
    \/ \E openOk \in BOOLEAN : SysStart(openOk)
    \/ SysStop
    \/ \E f \in {FaintFrame, MusicFrame} : ProcessAndPredict(f, Pred("dog", 100))
    \/ \E openOk \in BOOLEAN : RecStartRecording(openOk)
    \/ \E openOk \in BOOLEAN : RecRecordLoop(openOk)
    \/ \E rms \in RecRmsLevels : RecFrame(rms)
    \/ RecStopAndSave

SpecRestart == InitAGC /\ [][NextRestart]_vars

\* The GUI: presses of Start and Stop, closing the window, and the
\* processing threads.
NextGui ==
    \/ \E hw \in HardwareChecks, openOk \in BOOLEAN : GuiStartSystem(hw, openOk)
    \/ GuiStopSystem
    \/ GuiOnClosing
    \/ \E t \in 1..Len(gui.threads) : GuiLoopWhile(t)
    \/ \E t \in 1..Len(gui.threads) : GuiLoopIf(t)
    \/ \E t \in 1..Len(gui.threads) : GuiLoopCall(t)
    \/ \E t \in 1..Len(gui.threads) : GuiLoopReturn(t)

SpecGui == InitAGC /\ [][NextGui]_vars

\* A SoundDetectionService driven directly: constructed, started, stopped,
\* with its loop thread.
NextService ==
    \/ \E enable \in BOOLEAN : SvcConstruct(enable)
    \/ \E connectOk \in BOOLEAN, openOk \in BOOLEAN : SvcStart(connectOk, openOk)
    \/ SvcStopBegin
    \/ SvcStopEnd
    \/ SvcLoopWhile
    \/ \E reading \in Readings, audio \in AudioOutcomes :
           SvcLoopIteration(reading, audio)

SpecService == InitAGC /\ [][NextService]_vars

\* The REST API: /start and /stop requests, and the loop threads of the
\* services it has started, in a quiet room.
NextApi ==
    \/ \E enable \in BOOLEAN, connectOk \in BOOLEAN, openOk \in BOOLEAN :
           ApiStart(enable, connectOk, openOk)
    \/ ApiStopRejected
    \/ ApiStopBegin
    \/ ApiStopEnd
    \/ \E i \in 1..Len(api.instances) : ApiLoopWhile(i)
    \/ \E i \in 1..Len(api.instances) :
           ApiLoopIteration(i, Reading(FALSE, FALSE, <<>>))

SpecApi == InitAGC /\ [][NextApi]_vars

(* ------------------------------ claims -------------------------------- *)

\* The last append to the rolling buffer was made by the last cycle.
AppendedNow ==
    /\ result.delivered
    /\ env_buffer # <<>>
    /\ env_buffer[Len(env_buffer)][1] = now

RuleTypes == {"silence", "speech", "music", "noise"}

\* C1: after any sequence of appends, with frames of any length (also longer
\* than the capacity), env_buffer holds at most ENV_SAMPLES samples.
C1_BufferWithinCapacity == Len(env_buffer) <= ENV_SAMPLES

\* C1 witness: a frame longer than the capacity was appended and trimmed.
C1_Witness ==
    /\ AppendedNow
    /\ CHUNK > ENV_SAMPLES
    /\ Len(env_buffer) = ENV_SAMPLES

\* C2 (as claimed): two engine invocations are never less than one hop
\* interval apart, for frames that arrive faster than the hop interval.
C2_OneInferencePerHop ==
    Len(infer_log) = 2 => infer_log[2] - infer_log[1] >= HOP_INTERVAL

\* C3 (as claimed): on both paths, a prediction whose confidence is below
\* ENV_CONF_THRESHOLD is emitted as the empty label, never as a class name.
C3_ConfidenceGating ==
    (result.invoked /\ result.raw_conf < ENV_CONF_THRESHOLD)
        => result.env_label = None

\* C4: once the engine failed to load, env_model stays None, and every cycle
\* returns no label and confidence 0 without reaching the engine, while a
\* delivered frame still gets its rule-based class.
C4_RuleBasedOnly ==
    [][env_model = None =>
          /\ env_model' = None
          /\ ~result'.invoked
          /\ result'.env_label = None
          /\ result'.env_conf = 0
          /\ (result'.delivered => result'.basic_type \in RuleTypes)]_vars

\* C4 witness: without an engine, a pipeline frame passed the gate (so that
\* _update_env_buffer_and_predict was called) and was classified.
C4_Witness ==
    /\ env_model = None
    /\ result.delivered
    /\ result.kind = "pipe"
    /\ PipeGate(result.basic_type, result.rms)
    /\ result.env_label = None

\* C5: when the buffer holds fewer than ENV_WINDOW_SAMPLES samples after an
\* append, the cycle returns no prediction and the engine is not invoked.
C5_NoInferenceBelowWindow ==
    (AppendedNow /\ Len(env_buffer) < ENV_WINDOW_SAMPLES)
        => /\ ~result.invoked
           /\ result.raw_label = None
           /\ result.env_label = None
           /\ result.env_conf = 0

\* C5 witness: a frame was appended and the buffer is still below the window.
C5_Witness == AppendedNow /\ Len(env_buffer) < ENV_WINDOW_SAMPLES

\* C6 (as claimed): after RESET_SILENCE_SECONDS of frames that are silent or
\* below the minimum-interest threshold, the rolling window is empty and the
\* emitted label and confidence are empty and zero.
C6_SilenceReset ==
    quiet_run >= RESET_SILENCE_FRAMES
        => /\ Len(env_buffer) = 0
           /\ result.env_label = None
           /\ result.env_conf = 0

\* C7 (as claimed): on input that stays below the AGC gate threshold, every
\* conditioned frame is classified SILENCE, from the first frame after start,
\* and the fine-grained label is empty.
C7_QuietInputIsSilence ==
    /\ result.delivered => result.basic_type = "silence"
    /\ result.env_label = None

\* C8 (as claimed): a cycle that makes no new prediction reports the label
\* and confidence of the cycle before it.
C8_HoldLastLabel ==
    [][(now' = now + 1 /\ ~result'.invoked)
          => /\ result'.env_label = result.env_label
             /\ result'.env_conf = result.env_conf]_vars

\* A hop that qualifies for a fast switch away from label a.
Qualifies(h, a) ==
    h.raw_label # a /\ h.raw_conf >= SWITCH_CONF_THRESHOLD

\* C9 (as claimed): from a stable label A, SWITCH_STREAK_REQUIRED - 1
\* qualifying predictions of B followed by a non-qualifying one leave the
\* emitted label at A, and SWITCH_STREAK_REQUIRED qualifying predictions of B
\* change it to B.
C9_FastSwitchHysteresis ==
    Len(hop_log) = SWITCH_STREAK_REQUIRED + 1 =>
        LET a == hop_log[1].env_label
            b == hop_log[2].raw_label
            last == hop_log[SWITCH_STREAK_REQUIRED + 1]
            streak == \A i \in 2..SWITCH_STREAK_REQUIRED :
                          Qualifies(hop_log[i], a) /\ hop_log[i].raw_label = b
            lastQualifies == Qualifies(last, a) /\ last.raw_label = b
        IN  (a # None /\ streak) =>
                IF lastQualifies THEN last.env_label = b
                ELSE last.env_label = a

\* C10: the conditioner's gain stays within [0, max_linear_gain] through any
\* sequence of process calls and resets.
C10_GainWithinRange == 0 <= current_gain /\ current_gain <= max_linear_gain

\* C10 witness: frames just above the gate have driven the gain far above 1.
C10_Witness == sos_state > 0 /\ current_gain > 3 * GainOne

\* The post-gate RMS of the frame of the last process call is below the gate.
LowEnergyFrame ==
    processed.called /\ processed.len_in > 0 /\ LowEnergy(processed.rms_in)

\* C11 (as claimed): a frame in the low-energy regime leaves process with an
\* RMS of at most gate_ratio times its RMS before the gain, on every frame of
\* a background-only input, the first after start or reset included.
C11_BackgroundAttenuated ==
    LowEnergyFrame
        => processed.rms_out * GainOne <= gate_ratio * processed.rms_in

\* Half a step of the gain's resolution: the band inside which rounding the
\* smoothed gain to 1e-4 may leave it where it is.
GainTolerance == SmoothOne \div 2

\* C12, one frame of a stationary input: the gain moves toward the target and
\* never past it, by the fraction alpha of the distance (to rounding), and
\* outside the tolerance band it does move and does not land on the target.
C12_Step ==
    LET target == TargetGain(processed'.rms_in)
        alpha == Smoothing(processed'.rms_in)
        gain == current_gain
    IN  (processed'.called /\ processed'.len_in > 0) =>
            /\ gain <= target => (gain <= current_gain' /\ current_gain' <= target)
            /\ gain >= target => (gain >= current_gain' /\ current_gain' >= target)
            /\ Abs((current_gain' - gain) * SmoothOne - alpha * (target - gain))
                   <= GainTolerance
            /\ Abs(target - gain) > GainTolerance
                   => (current_gain' # target /\ current_gain' # gain)

\* The gain is inside the tolerance band around the target of the last frame.
Settled ==
    /\ processed.called
    /\ Abs(current_gain - TargetGain(processed.rms_in)) <= GainTolerance

\* C12: on an input whose post-gate RMS is the same on every frame, every
\* frame moves current_gain toward the constant target by the fraction alpha
\* of the remaining distance, never onto it in one jump and never past it, so
\* the gain is monotone, and it eventually stays inside the tolerance band.
C12_SmoothConvergence == [][C12_Step]_vars /\ <>[]Settled

\* C12 witness: the gain has settled on a target away from its initial value.
C12_Witness ==
    /\ Settled
    /\ sos_state > 1
    /\ Abs(GainOne - TargetGain(processed.rms_in)) > GainTolerance

\* C13 (as claimed): process returns as many samples as it was given, for
\* every length, even or odd.
C13_SameLength == processed.called => processed.len_out = processed.len_in

\* A process call on a degenerate frame: no samples, or samples that are all
\* zero (post-gate RMS 0).
ProcessDegenerate ==
    \/ \E rms \in RmsLevels : Process(0, rms)
    \/ \E n \in AgcLengths : Process(n, 0)

\* C14 (as claimed): process on a degenerate frame (length zero, or all
\* samples zero) changes neither sos_state nor current_gain.
C14_DegenerateNoOp ==
    [][ProcessDegenerate => UNCHANGED <<sos_state, current_gain>>]_vars

\* The conditioner is as __init__ leaves it.
Fresh == sos_state = SosInit /\ current_gain = GainOne

ReadFails ==
    \/ ~IsNumeric(tuning.name)
    \/ tuning.xfer.exc # "none"
    \/ Len(tuning.xfer.bytes) # 8

\* C16: Tuning.read never raises, and returns None on every failure of the
\* control transfer or of decoding the response.
C16_ReadNeverRaises ==
    tuning.op = "read"
        => /\ tuning.out.exc = "none"
           /\ ReadFails => tuning.out.ret = NoneValue

\* C16 witness: a read got a response that is too short and returned None.
C16_Witness ==
    /\ tuning.op = "read"
    /\ IsNumeric(tuning.name)
    /\ tuning.xfer.exc = "none"
    /\ Len(tuning.xfer.bytes) = 4
    /\ tuning.out = Return(NoneValue)

\* A read of parameter name that got 8 bytes.
Decoded(name) ==
    /\ tuning.op = "read"
    /\ tuning.name = name
    /\ tuning.xfer.exc = "none"
    /\ Len(tuning.xfer.bytes) = 8

\* C17 (as claimed): for a response of two signed 32-bit integers (a, b),
\* read returns a for the parameters 21, 19 and 22, and a * 2^b for
\* parameter 6, whatever a and b are.
C17_DecodeAsClaimed ==
    LET a == Unpack(tuning.xfer.bytes)[1]
        b == Unpack(tuning.xfer.bytes)[2]
    IN  /\ \A name \in {"21", "19", "22"} :
               Decoded(name) => tuning.out = Return(IntValue(a))
        /\ Decoded("6") => tuning.out = Return(FloatValue(a, b))

\* a * 2^b is a double: the power does not overflow, and the product neither
\* overflows nor underflows.
InDoubleRange(a, b) ==
    /\ b <= FLOAT_MAX_EXP
    /\ a # 0 => (b >= FLOAT_MIN_EXP /\ BitLen(Abs(a)) - 1 + b <= FLOAT_MAX_EXP)

\* C17 (amended): read returns a for the parameters 21, 19 and 22; for
\* parameter 6 it returns a * 2^b when that is a double ((3, 2) gives 12.0),
\* and None when b is above the largest exponent of a double.
C17_DecodeInRange ==
    LET a == Unpack(tuning.xfer.bytes)[1]
        b == Unpack(tuning.xfer.bytes)[2]
    IN  /\ \A name \in {"21", "19", "22"} :
               Decoded(name) => tuning.out = Return(IntValue(a))
        /\ (Decoded("6") /\ InDoubleRange(a, b))
               => tuning.out = Return(FloatValue(a, b))
        /\ (Decoded("6") /\ a = 3 /\ b = 2)
               => tuning.out = Return(FloatValue(12, 0))
        /\ (Decoded("6") /\ b > FLOAT_MAX_EXP)
               => tuning.out = Return(NoneValue)

\* C17 witness: the response (3, 2) was read for parameter 6 and gave 12.0.
C17_Witness ==
    /\ Decoded("6")
    /\ tuning.xfer.bytes = <<3, 0, 0, 0, 2, 0, 0, 0>>
    /\ tuning.out = Return(FloatValue(12, 0))

\* C18 (as claimed): Tuning.write never raises, whatever fails while the
\* control transfer is issued.
C18_WriteNeverRaises == tuning.op = "write" => tuning.out.exc = "none"

\* The pipeline after stop: stream and audio handle released, not recording.
Stopped == stream = None /\ p = None /\ ~is_recording /\ ~is_running

\* The packaged classifier after cleanup.
PkgReleased ==
    pkg.p = "terminated" /\ pkg.stream # "open" /\ ~pkg.is_recording

\* C19 (as claimed): a stop of a pipeline that is already stopped releases
\* nothing a second time and leaves the state as the first stop left it.
C19_StopIdempotent ==
    [][/\ (Stopped /\ SysStop) => UNCHANGED vars
       /\ (PkgReleased /\ PkgCleanup) => UNCHANGED vars]_vars

\* C20: a cycle whose read fails returns None and leaves the conditioner, the
\* rolling buffer and the stream as they were, and on an open stream the next
\* frame can be processed.
C20_ReadFailureSkipsCycle ==
    /\ [][ProcessAndPredictNoFrame
              => /\ result' = NoFrame("pipe")
                 /\ UNCHANGED <<sos_state, current_gain, env_buffer, stream,
                                is_recording, processed>>]_vars
    /\ []((result = NoFrame("pipe") /\ CanRead /\ now < MaxFrames)
              => ENABLED ProcessAndPredict(SpeechFrame, Pred("dog", 100)))

\* C20 witness: a read failed in the middle of a session, on an open stream,
\* with frames already in the buffer and the gain away from 1.0.
C20_Witness ==
    /\ result = NoFrame("pipe")
    /\ CanRead
    /\ sos_state > 0
    /\ env_buffer # <<>>
    /\ current_gain # GainOne

\* C21: after any sequence of appends the rolling buffer is the most recent
\* min(ENV_SAMPLES, total appended) samples, in arrival order, and whenever
\* the engine is invoked its input is the last ENV_WINDOW_SAMPLES samples
\* appended.
C21_MostRecentSamples ==
    /\ env_buffer = LastN(appended, ENV_SAMPLES)
    /\ result.invoked => result.segment = LastN(appended, ENV_WINDOW_SAMPLES)

\* C21 witness: the engine ran after the oldest samples had been trimmed, on
\* a segment that spans two frames.
C21_Witness ==
    /\ result.invoked
    /\ Len(appended) > ENV_SAMPLES
    /\ Len(result.segment) = ENV_WINDOW_SAMPLES
    /\ result.segment[1][1] # result.segment[ENV_WINDOW_SAMPLES][1]

\* The minimum-interest RMS of the cycle that produced record r.
MinInterestRms(r) == IF r.kind = "cls" THEN ENV_MIN_RMS ELSE PIPE_MIN_RMS

\* C30: the rolling buffer changes only on a delivered frame whose rule-based
\* type is not silence and whose RMS is above the minimum-interest threshold,
\* while the engine is loaded; every other step leaves it as it was.
C30_BufferOnlyOnGatedFrames ==
    [][env_buffer' # env_buffer =>
          /\ env_model # None
          /\ result'.delivered
          /\ result'.basic_type # "silence"
          /\ result'.rms > MinInterestRms(result')]_vars

\* C30 witness: a gated frame was appended right after samples of a frame
\* that is not its predecessor in the captured stream.
C30_Witness ==
    /\ AppendedNow
    /\ \E i \in 1..(Len(env_buffer) - 1) :
           /\ env_buffer[i + 1][1] = now
           /\ env_buffer[i][1] < now - 1

\* The recorder's conditioner is as reset_states leaves it.
RecFresh == recorder.sos_state = SosInit /\ recorder.current_gain = GainOne

\* C22: the first frame processed after a (re)start is processed from the
\* reset conditioner, gain 1.0 and initial delay state: in the pipeline the
\* first frame after start() returned, in the recorder the frame that becomes
\* the first of frames_clean.
C22_FirstFrameFromReset ==
    /\ [][now' = now + 1 /\ result'.kind = "pipe" /\ restarted => Fresh]_vars
    /\ [][recorder.frames_clean = 0 /\ recorder'.frames_clean = 1
              => RecFresh]_vars

\* C22 witness: the pipeline has processed the first frame after a start
\* that followed earlier frames, and the recorder the first frame of a
\* recording started after an earlier one was stopped.
C22_Witness ==
    /\ result.kind = "pipe" /\ result.delivered
    /\ now >= 2 /\ sos_state = 1 /\ is_running /\ ~restarted
    /\ recorder.p = "terminated" /\ recorder.pc = "loop"
    /\ recorder.frames_clean = 1 /\ recorder.sos_state = 1

\* Thread t is between its audio_system check and the end of
\* process_and_predict, on instance i.
GuiInCall(t, i) ==
    /\ gui.threads[t].pc \in {"call", "process"}
    /\ gui.threads[t].sys = i

\* This step stops instance i or takes it out of audio_system.
GuiReleases(i) ==
    \/ ~gui.instances[i].stopped /\ gui'.instances[i].stopped
    \/ gui.audio_system = i /\ gui'.audio_system # i

\* C23: the main thread never closes the stream of an instance, nor sets
\* audio_system to None, while a processing thread is between its
\* audio_system check and the end of process_and_predict on that instance.
C23_NoStopDuringCall ==
    [][\A i \in 1..Len(gui.instances), t \in 1..Len(gui.threads) :
          GuiReleases(i) => ~GuiInCall(t, i)]_vars

\* C27: audio_system.start() is only ever called on a SmartAudioSystem on
\* which stop() has not been called.
C27_NeverStartStopped ==
    \A i \in 1..Len(gui.instances) : ~gui.instances[i].started_after_stop

\* C27 witness: after a start that failed while opening the stream and
\* stopped its instance, a later Start runs on a new instance.
C27_Witness ==
    /\ Len(gui.instances) = 2
    /\ gui.instances[1].started /\ gui.instances[1].stopped
    /\ Len(gui.threads) = 1
    /\ gui.audio_system = 2
    /\ gui.instances[2].started /\ ~gui.instances[2].stopped

\* C25: once stop() has returned, the loop thread has ended.
C25_ThreadEndedAfterStop ==
    svc.constructed /\ svc.stop_state = "returned"
        => svc.thread \in {"none", "done"}

\* C26: when start() returns on a service constructed with
\* enable_audio_classification=True whose audio stream opened, classification
\* is still enabled.
C26_ClassificationStaysEnabled ==
    svc.constructed /\ svc.requested /\ svc.start_result = "True"
        /\ svc.stop_state = "none" /\ svc.stream = "open"
        => svc.enable_audio_classification

\* The events of seq are in chronological order.
Chronological(seq) ==
    \A i \in 1..(Len(seq) - 1) : seq[i].timestamp < seq[i + 1].timestamp

\* The limits get_history is asked with.
Limits == 1..(HistorySize + 1)

\* C28: the history never holds more than history_size events and is the
\* most recent ones appended, oldest evicted first; an iteration appends an
\* event only when vad is true or the sound type is not silence; and for
\* every limit >= 1 get_history(limit) is the most recent
\* min(limit, len(history)) events in chronological order.
C28_BoundedHistory ==
    /\ [](svc.constructed =>
            /\ Len(svc.history) <= HistorySize
            /\ svc.history = LastN(svc.logged, HistorySize)
            /\ \A e \in {svc.logged[i] : i \in 1..Len(svc.logged)} :
                   e.vad \/ e.sound_type # "silence"
            /\ \A limit \in Limits :
                   LET got == GetHistory(svc, limit)
                       n == Min(limit, Len(svc.history))
                   IN  /\ Len(got) = n
                       /\ Chronological(got)
                       /\ \A i \in 1..n :
                              got[i] = svc.logged[Len(svc.logged) - n + i])
    /\ [][svc.constructed /\ svc'.constructed /\ svc'.history # svc.history
             => /\ svc'.total_detections = svc.total_detections + 1
                /\ svc'.history[Len(svc'.history)].timestamp
                       = svc'.total_detections]_vars

\* C28 witness: an event has been evicted, and the last iteration, with vad
\* false and the sound type silence, appended nothing.
C28_Witness ==
    /\ svc.constructed
    /\ Len(svc.logged) > HistorySize
    /\ Len(svc.history) = HistorySize
    /\ svc.history[HistorySize].timestamp < svc.total_detections

\* Sum of the per-sound-type counters.
SoundTypeTotal(s) ==
    s.sound_types["unknown"] + s.sound_types["silence"]
        + s.sound_types["speech"] + s.sound_types["music"]
        + s.sound_types["noise"]

\* Sum of the bins of the direction histogram.
RECURSIVE HistogramTotal(_, _)
HistogramTotal(h, b) ==
    IF b < 0 THEN 0 ELSE h[b] + HistogramTotal(h, b - 1)

\* C29: after every iteration total_detections is the sum of the
\* per-sound-type counters, vad_count and speech_count are at most
\* total_detections, and an iteration increments at most one bin of the
\* direction histogram, a bin within 0..11.
C29_StatisticsConsistent ==
    /\ [](svc.constructed =>
            /\ svc.total_detections = SoundTypeTotal(svc)
            /\ svc.vad_count <= svc.total_detections
            /\ svc.speech_count <= svc.total_detections
            /\ \A i \in 1..Len(svc.last_bin) :
                   svc.last_bin[i] \in 0..(NUM_LEDS - 1)
            /\ DOMAIN svc.direction_histogram = 0..(NUM_LEDS - 1))
    /\ [][svc.constructed /\ svc'.constructed
             /\ svc'.total_detections # svc.total_detections
             => /\ svc'.total_detections = svc.total_detections + 1
                /\ HistogramTotal(svc'.direction_histogram, NUM_LEDS - 1)
                       = HistogramTotal(svc.direction_histogram, NUM_LEDS - 1)
                           + Len(svc'.last_bin)
                /\ Len(svc'.last_bin) <= 1]_vars

\* C29 witness: directions that wrap around (350 degrees, a negative angle)
\* have been counted, in the first and in the last bin.
C29_Witness ==
    /\ svc.constructed
    /\ svc.direction_histogram[0] >= 1
    /\ svc.direction_histogram[NUM_LEDS - 1] >= 1
    /\ svc.vad_count < svc.total_detections

\* This step serves a request of the given kind.
ApiServes(request) ==
    api'.requests = api.requests + 1 /\ api'.last.request = request

====
